---- MODULE Spec2Model ----
(***************************************************************************)
(* bundle-analyze: one run of the CLI, from the parsing of the command     *)
(* line to the exit of the process.                                        *)
(*                                                                         *)
(* A run is cli (option parsing) -> analyzePackage (option validation) ->  *)
(* runAnalyze (load the project, enumerate the pack list, stat every file, *)
(* print the report) -> the threshold gate of analyzePackage.              *)
(* buildTree, displayTree and serializeTree are pure and are operators.    *)
(***************************************************************************)
EXTENDS Integers, Sequences, FiniteSets, TLC

VARIABLES
    pc,         \* position of the run
    argv,       \* the --fail-if-exceeds-bytes argument as typed, or absent
    json,       \* TRUE when --json was given
    options,    \* options.failIfExceedsBytes as commander hands it over
    list,       \* the pack list (relative paths), in enumeration order
    files,      \* File[]: the entries stated so far
    tree,       \* the TreeNode map returned by buildTree
    totalSize,  \* the value runAnalyze returns
    stdout,     \* what console.log wrote
    stderr,     \* what console.error wrote
    exitCode,   \* the status given to process.exit, -1 while none was given
    log         \* the externally visible events of the run, in order

vars == <<pc, argv, json, options, list, files, tree, totalSize,
          stdout, stderr, exitCode, log>>

----------------------------------------------------------------------------
(* Bounds of the model *)

MaxFiles == 3
MaxSize == 2

Sizes == 0..MaxSize

(* Relative paths the enumerator may list, each a sequence of segments. *)
(* "d" is listed both as a file and as a directory of other paths: a    *)
(* pack list never holds both (see IsPackList).                         *)
Paths ==
    { <<"a">>, <<"b">>, <<"d">>, <<"d", "a">>, <<"d", "b">>, <<"d", "e", "a">> }

(* The arguments given to --fail-if-exceeds-bytes, as character sequences. *)
Args ==
    { <<"2">>, <<"x">>, <<"2", "x">>, <<"x", "2">>, <<"-", "1">> }

Absent == [present |-> FALSE, chars |-> <<>>]

----------------------------------------------------------------------------
(* Number.parseInt(val, 10) *)

Digits == {"0", "1", "2", "3", "4", "5", "6", "7", "8", "9"}

DigitValue(c) ==
    CASE c = "0" -> 0 [] c = "1" -> 1 [] c = "2" -> 2 [] c = "3" -> 3
      [] c = "4" -> 4 [] c = "5" -> 5 [] c = "6" -> 6 [] c = "7" -> 7
      [] c = "8" -> 8 [] c = "9" -> 9

Undefined == [kind |-> "undefined", val |-> 0]
NaN == [kind |-> "NaN", val |-> 0]
Num(n) == [kind |-> "num", val |-> n]

(* The longest prefix of digits of s from position i on, as a value. *)
RECURSIVE DigitRun(_, _, _)
DigitRun(s, i, acc) ==
    IF i > Len(s) \/ s[i] \notin Digits
    THEN acc
    ELSE DigitRun(s, i + 1, acc * 10 + DigitValue(s[i]))

(* parseInt: an optional sign, then the leading digits; what follows the *)
(* digits is ignored; NaN when there is no leading digit.                *)
ParseInt(s) ==
    LET neg == Len(s) >= 1 /\ s[1] = "-"
        first == IF Len(s) >= 1 /\ s[1] \in {"-", "+"} THEN 2 ELSE 1
    IN  IF first > Len(s) \/ s[first] \notin Digits
        THEN NaN
        ELSE Num((IF neg THEN -1 ELSE 1) * DigitRun(s, first, 0))

(* An argument that is a decimal integer and nothing else. *)
IsNumeric(s) ==
    LET first == IF Len(s) >= 1 /\ s[1] \in {"-", "+"} THEN 2 ELSE 1
    IN  /\ first <= Len(s)
        /\ \A i \in first..Len(s) : s[i] \in Digits

(* analyzeOptionsSchema: failIfExceedsBytes is z.number().optional(); *)
(* z.number() refuses NaN.                                            *)
SchemaAccepts(o) == o.kind \in {"undefined", "num"}

----------------------------------------------------------------------------
(* The pack list *)

IsPrefix(p, q) == Len(p) < Len(q) /\ SubSeq(q, 1, Len(p)) = p

(* The enumerator lists files only, each once: no path twice, and no *)
(* listed file is a directory of another listed file.                *)
IsPackList(l) ==
    /\ \A i, j \in 1..Len(l) : i # j => l[i] # l[j]
    /\ \A i, j \in 1..Len(l) : ~IsPrefix(l[i], l[j])

PackLists ==
    { l \in UNION { [1..n -> Paths] : n \in 0..MaxFiles } : IsPackList(l) }

----------------------------------------------------------------------------
(* buildTree *)

Root == <<>>

NewNode(name, isFile) ==
    [name |-> name, size |-> 0, children |-> <<>>, isFile |-> isFile]

EmptyTree == [p \in {Root} |-> NewNode("", FALSE)]

(* file.path.split(path.sep).filter((p) => p.length > 0) *)
Parts(path) == SelectSeq(path, LAMBDA p : p # "")

(* current.children.set(part, ...) when the child is not there yet. The *)
(* children of a node keep the order of their insertion, as a Map does. *)
EnsureChild(t, cur, part, isLast) ==
    LET np == Append(cur, part)
    IN  IF np \in DOMAIN t
        THEN t
        ELSE [p \in DOMAIN t \cup {np} |->
                IF p = np THEN NewNode(part, isLast)
                ELSE IF p = cur
                     THEN [t[p] EXCEPT !.children = Append(@, part)]
                     ELSE t[p]]

(* A slip: a directory's size is assigned like a file's. *)
AddToNodeAssigning(t, np, isLast, size) == [t EXCEPT ![np].size = size]

(* node.size = size for the last part, node.size += size otherwise *)
AddToNode(t, np, isLast, size) ==
    [t EXCEPT ![np].size = IF isLast THEN size ELSE @ + size]

(* The inner loop over parts.entries(), from part i on. *)
RECURSIVE Walk(_, _, _, _)
Walk(t, parts, i, size) ==
    IF i > Len(parts)
    THEN t
    ELSE LET cur == SubSeq(parts, 1, i - 1)
             isLast == (i = Len(parts))
             t1 == EnsureChild(t, cur, parts[i], isLast)
             t2 == AddToNode(t1, Append(cur, parts[i]), isLast, size)
         IN  Walk(t2, parts, i + 1, size)

(* A slip: the root's total is assigned, not accumulated. *)
AddToRootAssigning(t, size) == [t EXCEPT ![Root].size = size]

(* current = root; current.size += file.stats.size *)
AddToRoot(t, size) == [t EXCEPT ![Root].size = @ + size]

AddFile(t, file) == Walk(AddToRoot(t, file.size), Parts(file.path), 1, file.size)

BuildTree(fs) ==
    LET F[i \in 0..Len(fs)] ==
            IF i = 0 THEN EmptyTree ELSE AddFile(F[i - 1], fs[i])
    IN  F[Len(fs)]

(* files.reduce((acc, file) => acc + file.stats.size, 0) *)
RECURSIVE SumSizes(_)
SumSizes(fs) ==
    IF fs = <<>> THEN 0 ELSE fs[1].size + SumSizes(Tail(fs))

----------------------------------------------------------------------------
(* displaySize (./utils): bytes below 1024 as an integer with "B", else *)
(* divided by 1024 up to GB and given with two decimals; hundredths     *)
(* holds the number times 100.                                          *)

RoundDiv(n, d) == (2 * n + d) \div (2 * d)

RECURSIVE Scale(_, _, _)
Scale(n, d, units) ==
    IF n < 1024 * d \/ Len(units) = 1
    THEN [hundredths |-> RoundDiv(100 * n, d), unit |-> units[1]]
    ELSE Scale(n, d * 1024, Tail(units))

DisplaySize(n) ==
    IF n < 1024
    THEN [hundredths |-> 100 * n, unit |-> "B"]
    ELSE Scale(n, 1024, <<"KB", "MB", "GB">>)

----------------------------------------------------------------------------
(* Array.prototype.sort: stable, a goes before b when cmp(a, b) < 0 *)

(* Where x goes into the sorted s: before the first element it must    *)
(* precede. cmp[a, b] is the comparator's result for the elements a, b. *)
InsertPos(s, x, cmp) ==
    LET after == { j \in 1..Len(s) : cmp[x, s[j]] < 0 }
    IN  IF after = {} THEN Len(s) + 1
        ELSE CHOOSE j \in after : \A k \in after : j <= k

InsertAt(s, pos, x) ==
    SubSeq(s, 1, pos - 1) \o <<x>> \o SubSeq(s, pos, Len(s))

StableSort(s, cmp) ==
    LET F[i \in 0..Len(s)] ==
            IF i = 0 THEN <<>>
            ELSE InsertAt(F[i - 1], InsertPos(F[i - 1], s[i], cmp), s[i])
    IN  F[Len(s)]

Range(s) == { s[i] : i \in 1..Len(s) }

(* Array.from(node.children.values()): the children in insertion order *)
ChildPaths(t, p) ==
    [i \in 1..Len(t[p].children) |-> Append(p, t[p].children[i])]

----------------------------------------------------------------------------
(* A slip: the percentage is cut to a whole percent. *)
ToFixed1Truncating(size, total) == ((100 * size) \div total) * 10

(* (x).toFixed(1) of a ratio size / total * 100, in tenths of a percent.   *)
(* Exact for every ratio that is not half way between two tenths; a ratio  *)
(* half way needs a total that is a multiple of 16.                        *)
ToFixed1(size, total) == RoundDiv(1000 * size, total)

----------------------------------------------------------------------------
(* displayTree *)

DisplayCompare(a, b) ==
    IF a.isFile # b.isFile
    THEN (IF a.isFile THEN 1 ELSE -1)
    ELSE b.size - a.size

(* ((node.size / totalSize) * 100).toFixed(1): a division by 0 gives NaN *)
(* for 0 / 0 and Infinity otherwise.                                     *)
DisplayPercentage(size, total) ==
    IF total = 0
    THEN [kind |-> IF size = 0 THEN "NaN" ELSE "Infinity", tenths |-> 0]
    ELSE [kind |-> "num", tenths |-> ToFixed1(size, total)]

DisplayChildren(t, p) ==
    LET c == ChildPaths(t, p)
    IN  StableSort(c, [a \in Range(c), b \in Range(c) |-> DisplayCompare(t[a], t[b])])

(* The lines console.log writes for the node at p and all below it. *)
RECURSIVE DisplayTree(_, _, _, _, _)
DisplayTree(t, p, total, prefix, isLast) ==
    LET node == t[p]
        line == [prefix |-> prefix,
                 connector |-> IF isLast THEN "last" ELSE "tee",
                 name |-> node.name,
                 size |-> DisplaySize(node.size),
                 percentage |-> DisplayPercentage(node.size, total)]
        children == DisplayChildren(t, p)
        childPrefix == Append(prefix, IF isLast THEN "blank" ELSE "bar")
        Below[i \in 0..Len(children)] ==
            IF i = 0 THEN <<>>
            ELSE Below[i - 1] \o DisplayTree(t, children[i], total, childPrefix,
                                             i = Len(children))
    IN  <<line>> \o Below[Len(children)]

----------------------------------------------------------------------------
(* serializeTree *)

(* A slip: the serializer sorts by size alone. *)
SerializeCompareBySizeOnly(a, b) == b.size - a.size

SerializeCompare(a, b) ==
    IF a.isFile # b.isFile
    THEN (IF a.isFile THEN 1 ELSE -1)
    ELSE b.size - a.size

(* totalSize === 0 ? 0 : (node.size / totalSize) * 100, then *)
(* Number(percentage.toFixed(1)), in tenths                  *)
SerializePercentage(size, total) ==
    IF total = 0 THEN 0 ELSE ToFixed1(size, total)

SerializeChildren(t, p) ==
    LET c == ChildPaths(t, p)
    IN  StableSort(c, [a \in Range(c), b \in Range(c) |-> SerializeCompare(t[a], t[b])])

(* parentPath ? path.join(parentPath, node.name) : node.name, as segments *)
JoinPath(parentPath, name) ==
    IF parentPath = <<>> THEN <<name>> ELSE Append(parentPath, name)

RECURSIVE SerializeTree(_, _, _, _)
SerializeTree(t, p, total, parentPath) ==
    LET node == t[p]
        currentPath == JoinPath(parentPath, node.name)
        children == SerializeChildren(t, p)
    IN  [name |-> node.name,
         path |-> currentPath,
         sizeBytes |-> node.size,
         size |-> DisplaySize(node.size),
         percentage |-> SerializePercentage(node.size, total),
         isFile |-> node.isFile,
         children |-> [i \in 1..Len(children) |->
                          SerializeTree(t, children[i], total, currentPath)]]

----------------------------------------------------------------------------
(* runAnalyze: the two reports *)

JsonTopCompare(a, b) ==
    IF a.isFile # b.isFile
    THEN (IF a.isFile THEN 1 ELSE -1)
    ELSE b.size - a.size

PlainTopCompare(a, b) ==
    IF a.isFile # b.isFile
    THEN (IF a.isFile THEN 1 ELSE -1)
    ELSE b.size - a.size

JsonTopChildren(t) ==
    LET c == ChildPaths(t, Root)
    IN  StableSort(c, [a \in Range(c), b \in Range(c) |-> JsonTopCompare(t[a], t[b])])

PlainTopChildren(t) ==
    LET c == ChildPaths(t, Root)
    IN  StableSort(c, [a \in Range(c), b \in Range(c) |-> PlainTopCompare(t[a], t[b])])


(* The document given to JSON.stringify in --json mode. *)
JsonReport(t, total) ==
    LET children == JsonTopChildren(t)
    IN  [totalSizeBytes |-> total,
         totalSize |-> DisplaySize(total),
         entries |-> [i \in 1..Len(children) |->
                         SerializeTree(t, children[i], total, <<>>)]]

(* The tree lines of the plain report, after the total line. *)
PlainTreeLines(t, total) ==
    LET children == PlainTopChildren(t)
        Below[i \in 0..Len(children)] ==
            IF i = 0 THEN <<>>
            ELSE Below[i - 1] \o DisplayTree(t, children[i], total, <<>>,
                                             i = Len(children))
    IN  Below[Len(children)]

TotalLine(total) == [text |-> "Total unpacked size:", size |-> DisplaySize(total)]

----------------------------------------------------------------------------
(* analyzePackage: the threshold gate *)

(* A slip: a total equal to the ceiling counts as exceeding it. *)
ExceededOrEqual(o, total) == o.kind = "num" /\ total >= o.val

Exceeded(o, total) == o.kind # "undefined" /\ o.kind = "num" /\ total > o.val

(* A slip: the structured notice reports the ceiling as the size. *)
JsonNoticeOfCeiling(o, total) ==
    [error |-> "Bundle size exceeds limit", size |-> o.val]

(* JSON.stringify({ error: "Bundle size exceeds limit", size: totalSize }) *)
JsonNotice(o, total) == [error |-> "Bundle size exceeds limit", size |-> total]

(* pc.red of 'Bundle size exceeds' and displaySize(options.failIfExceedsBytes) *)
PlainNotice(o, total) == [text |-> "Bundle size exceeds", ceiling |-> DisplaySize(o.val)]

----------------------------------------------------------------------------
Init ==
    /\ pc = "cli"
    /\ argv \in {Absent} \cup { [present |-> TRUE, chars |-> a] : a \in Args }
    /\ json \in BOOLEAN
    /\ options = Undefined
    /\ list = <<>>
    /\ files = <<>>
    /\ tree = EmptyTree
    /\ totalSize = 0
    /\ stdout = <<>>
    /\ stderr = <<>>
    /\ exitCode = -1
    /\ log = <<>>

Ev(name, idx) == [ev |-> name, idx |-> idx]

(* commander parses the option with (val) => Number.parseInt(val, 10) *)
(* and calls the action.                                              *)
Cli ==
    /\ pc = "cli"
    /\ options' = IF argv.present THEN ParseInt(argv.chars) ELSE Undefined
    /\ pc' = "validate"
    /\ UNCHANGED <<argv, json, list, files, tree, totalSize,
                   stdout, stderr, exitCode, log>>

(* analyzePackage: analyzeOptionsSchema.parse(...) returns *)
ValidateOk ==
    /\ pc = "validate"
    /\ SchemaAccepts(options)
    /\ pc' = "load"
    /\ log' = Append(log, Ev("validated", 0))
    /\ UNCHANGED <<argv, json, options, list, files, tree, totalSize,
                   stdout, stderr, exitCode>>

(* analyzePackage: analyzeOptionsSchema.parse(...) throws *)
ValidateThrows ==
    /\ pc = "validate"
    /\ ~SchemaAccepts(options)
    /\ pc' = "threw"
    /\ log' = Append(log, Ev("configError", 0))
    /\ UNCHANGED <<argv, json, options, list, files, tree, totalSize,
                   stdout, stderr, exitCode>>

(* runAnalyze: new Arborist(...).loadActual() *)
LoadActual ==
    /\ pc = "load"
    /\ pc' = "packlist"
    /\ log' = Append(log, Ev("load", 0))
    /\ UNCHANGED <<argv, json, options, list, files, tree, totalSize,
                   stdout, stderr, exitCode>>

(* runAnalyze: packlist(tree) *)
Packlist ==
    /\ pc = "packlist"
    /\ \E l \in PackLists : list' = l
    /\ pc' = "stat"
    /\ log' = Append(log, Ev("enumerate", 0))
    /\ UNCHANGED <<argv, json, options, files, tree, totalSize,
                   stdout, stderr, exitCode>>

(* runAnalyze: one turn of the loop over list, fs.statSync returns *)
StatOk ==
    /\ pc = "stat"
    /\ Len(files) < Len(list)
    /\ \E size \in Sizes :
          files' = Append(files, [path |-> list[Len(files) + 1], size |-> size])
    /\ log' = Append(log, Ev("stat", Len(files) + 1))
    /\ UNCHANGED <<pc, argv, json, options, list, tree, totalSize,
                   stdout, stderr, exitCode>>

(* A slip: a failed stat is swallowed and the file counted as empty. *)
StatThrowsSwallowed ==
    /\ pc = "stat"
    /\ Len(files) < Len(list)
    /\ files' = Append(files, [path |-> list[Len(files) + 1], size |-> 0])
    /\ log' = Append(log, Ev("statError", Len(files) + 1))
    /\ UNCHANGED <<pc, argv, json, options, list, tree, totalSize,
                   stdout, stderr, exitCode>>

(* runAnalyze: fs.statSync throws, and nothing catches it *)
StatThrows ==
    /\ pc = "stat"
    /\ Len(files) < Len(list)
    /\ pc' = "threw"
    /\ log' = Append(log, Ev("statError", Len(files) + 1))
    /\ UNCHANGED <<argv, json, options, list, files, tree, totalSize,
                   stdout, stderr, exitCode>>

(* runAnalyze with options.json: the loop is over, one console.log *)
ReportJson ==
    /\ pc = "stat"
    /\ Len(files) = Len(list)
    /\ json
    /\ totalSize' = SumSizes(files)
    /\ tree' = BuildTree(files)
    /\ stdout' = Append(stdout, JsonReport(tree', totalSize'))
    /\ log' = Append(log, Ev("stdout", 0))
    /\ pc' = "gate"
    /\ UNCHANGED <<argv, json, options, list, files, stderr, exitCode>>

(* runAnalyze without options.json: the total line, then the tree lines *)
ReportPlain ==
    /\ pc = "stat"
    /\ Len(files) = Len(list)
    /\ ~json
    /\ totalSize' = SumSizes(files)
    /\ tree' = BuildTree(files)
    /\ stdout' = stdout \o <<TotalLine(totalSize')>>
                        \o PlainTreeLines(tree', totalSize')
    /\ log' = Append(log, Ev("stdout", 0))
    /\ pc' = "gate"
    /\ UNCHANGED <<argv, json, options, list, files, stderr, exitCode>>

(* A slip: the notice goes to console.log. *)
GateExceededOnStdout ==
    /\ pc = "gate"
    /\ Exceeded(options, totalSize)
    /\ stdout' = Append(stdout, IF json THEN JsonNotice(options, totalSize)
                                        ELSE PlainNotice(options, totalSize))
    /\ exitCode' = 1
    /\ log' = log \o <<Ev("stdout", 0), Ev("exit", 1)>>
    /\ pc' = "exited"
    /\ UNCHANGED <<argv, json, options, list, files, tree, totalSize, stderr>>

(* analyzePackage: the ceiling is exceeded: console.error, process.exit(1) *)
GateExceeded ==
    /\ pc = "gate"
    /\ Exceeded(options, totalSize)
    /\ stderr' = Append(stderr, IF json THEN JsonNotice(options, totalSize)
                                        ELSE PlainNotice(options, totalSize))
    /\ exitCode' = 1
    /\ log' = log \o <<Ev("stderr", 0), Ev("exit", 1)>>
    /\ pc' = "exited"
    /\ UNCHANGED <<argv, json, options, list, files, tree, totalSize, stdout>>

(* analyzePackage returns; the process ends with status 0 *)
GateOk ==
    /\ pc = "gate"
    /\ ~Exceeded(options, totalSize)
    /\ exitCode' = 0
    /\ log' = Append(log, Ev("exit", 0))
    /\ pc' = "exited"
    /\ UNCHANGED <<argv, json, options, list, files, tree, totalSize,
                   stdout, stderr>>

Next ==
    \/ Cli
    \/ ValidateOk
    \/ ValidateThrows
    \/ LoadActual
    \/ Packlist
    \/ StatOk
    \/ StatThrows
    \/ ReportJson
    \/ ReportPlain
    \/ GateExceeded
    \/ GateOk

Spec == Init /\ [][Next]_vars

----------------------------------------------------------------------------
(* Properties *)

Reported == pc \in {"gate", "exited"}

(* The sum of the sizes of the immediate children of the node at p. *)
ChildSum(t, p) ==
    LET c == ChildPaths(t, p)
        S[i \in 0..Len(c)] == IF i = 0 THEN 0 ELSE S[i - 1] + t[c[i]].size
    IN  S[Len(c)]

(* The sum of the byte sizes of the files stated, last file first. *)
FileSizeSum ==
    LET S[i \in 0..Len(files)] ==
            IF i = 0 THEN 0 ELSE S[i - 1] + files[Len(files) + 1 - i].size
    IN  S[Len(files)]

CeilingPresent == argv.present /\ options.kind = "num"

(* C1: a run that measured a total ends with status 1 exactly when a      *)
(* ceiling is present and the total is greater than it, in plain and in   *)
(* --json mode; otherwise (no ceiling, or total <= ceiling, the equal     *)
(* case included) it ends with status 0 and nothing is written to stderr. *)
C1_ExitOneIffCeilingExceeded ==
    pc = "exited" =>
        /\ exitCode \in {0, 1}
        /\ (exitCode = 1) <=> (CeilingPresent /\ totalSize > options.val)
        /\ (~CeilingPresent \/ totalSize <= options.val)
              => (exitCode = 0 /\ stderr = <<>>)

(* C1 witness: a run whose total equals its ceiling ended with status 0. *)
C1_Witness ==
    /\ pc = "exited"
    /\ CeilingPresent
    /\ totalSize = options.val
    /\ exitCode = 0
    /\ Len(files) >= 1

(* Whether a notice has the field and the field has the value. *)
Carries(n, field, value) == field \in DOMAIN n /\ n[field] = value

(* C2 as stated: whenever the gate is exceeded the notice carries both the *)
(* ceiling and the measured total: human-readable in plain mode, the raw   *)
(* byte values in --json mode.                                             *)
C2_NoticeCarriesCeilingAndSize ==
    (pc = "exited" /\ exitCode = 1) =>
        /\ Len(stderr) = 1
        /\ IF json
           THEN /\ Carries(stderr[1], "ceiling", options.val)
                /\ Carries(stderr[1], "size", totalSize)
           ELSE /\ Carries(stderr[1], "ceiling", DisplaySize(options.val))
                /\ Carries(stderr[1], "size", DisplaySize(totalSize))

(* C2 as amended: whenever the gate is exceeded exactly one notice is     *)
(* written; in plain mode it carries the human-readable ceiling and not   *)
(* the measured size, in --json mode the raw measured total and not the   *)
(* ceiling.                                                               *)
C2_NoticeCarriesOneOfThem ==
    (pc = "exited" /\ exitCode = 1) =>
        /\ Len(stderr) = 1
        /\ IF json
           THEN /\ Carries(stderr[1], "size", totalSize)
                /\ "ceiling" \notin DOMAIN stderr[1]
           ELSE /\ Carries(stderr[1], "ceiling", DisplaySize(options.val))
                /\ "size" \notin DOMAIN stderr[1]

(* C2 witness: a --json run over its ceiling wrote its notice. *)
C2_Witness ==
    /\ pc = "exited"
    /\ exitCode = 1
    /\ json
    /\ stderr # <<>>
    /\ totalSize > options.val + 1

(* C3: for every non-empty file list, in whatever order it was inserted, *)
(* the size of the root returned by buildTree is the sum of the sizes of *)
(* all files, which is the total runAnalyze reports and returns.         *)
C3_RootSizeIsSumOfFiles ==
    (Reported /\ files # <<>>) =>
        /\ tree[Root].size = FileSizeSum
        /\ tree[Root].size = totalSize

(* C3 witness: three files with different sizes, in two directories. *)
C3_Witness ==
    /\ Reported
    /\ Len(files) = 3
    /\ files[1].size = 2 /\ files[2].size = 1 /\ files[3].size = 2
    /\ Len(files[1].path) = 3
    /\ Len(files[2].path) = 1

(* C4: in every tree buildTree returns, every directory node, the root *)
(* included, has a size that is the sum of the sizes of its immediate  *)
(* children.                                                           *)
C4_DirectorySizeIsChildSum ==
    Reported =>
        \A p \in DOMAIN tree :
            ~tree[p].isFile => tree[p].size = ChildSum(tree, p)

(* C4 witness: a directory below the root holds a directory and a file, *)
(* of different sizes.                                                  *)
C4_Witness ==
    /\ Reported
    /\ \E p \in DOMAIN tree :
          /\ p # Root
          /\ Len(tree[p].children) = 2
          /\ \E c1, c2 \in DOMAIN tree :
                /\ SubSeq(c1, 1, Len(c1) - 1) = p /\ Len(c1) = Len(p) + 1
                /\ SubSeq(c2, 1, Len(c2) - 1) = p /\ Len(c2) = Len(p) + 1
                /\ ~tree[c1].isFile /\ tree[c2].isFile
                /\ tree[c1].size # tree[c2].size
                /\ tree[c1].size > 0 /\ tree[c2].size > 0

(* Where x stands in the sequence s. *)
IndexOf(s, x) == CHOOSE i \in 1..Len(s) : s[i] = x

(* The ordering rule for the emitted order s of the children whose order *)
(* of insertion is ins: directories before files, within a kind by       *)
(* descending size, equal kind and size in the order of insertion.       *)
FollowsOrderingRule(t, s, ins) ==
    /\ Len(s) = Len(ins)
    /\ \A i \in 1..Len(ins) : \E j \in 1..Len(s) : s[j] = ins[i]
    /\ \A i, j \in 1..Len(s) :
          i < j =>
             LET a == t[s[i]]
                 b == t[s[j]]
             IN  /\ a.isFile => b.isFile
                 /\ (a.isFile = b.isFile) => a.size >= b.size
                 /\ (a.isFile = b.isFile /\ a.size = b.size)
                       => IndexOf(ins, s[i]) < IndexOf(ins, s[j])

(* The children of the node at p in the order the renderer prints them *)
(* and in the order the serializer lists them.                         *)
RenderedChildren(t, p) ==
    IF p = Root THEN PlainTopChildren(t) ELSE DisplayChildren(t, p)

SerializedChildren(t, p) ==
    IF p = Root THEN JsonTopChildren(t) ELSE SerializeChildren(t, p)

(* The nodes of a serialized record in pre-order, each with its depth. *)
RECURSIVE Preorder(_, _)
Preorder(rec, depth) ==
    LET Below[i \in 0..Len(rec.children)] ==
            IF i = 0 THEN <<>>
            ELSE Below[i - 1] \o Preorder(rec.children[i], depth + 1)
    IN  <<[name |-> rec.name, depth |-> depth, size |-> rec.size,
           percentage |-> rec.percentage]>>
        \o Below[Len(rec.children)]

DocumentPreorder(doc) ==
    LET Below[i \in 0..Len(doc.entries)] ==
            IF i = 0 THEN <<>>
            ELSE Below[i - 1] \o Preorder(doc.entries[i], 0)
    IN  Below[Len(doc.entries)]

(* name, depth and size of every node, in pre-order or line order *)
SerializedNodes(t, total) ==
    LET pre == DocumentPreorder(JsonReport(t, total))
    IN  [i \in 1..Len(pre) |->
            [name |-> pre[i].name, depth |-> pre[i].depth, size |-> pre[i].size]]

RenderedNodes(t, total) ==
    LET lines == PlainTreeLines(t, total)
    IN  [i \in 1..Len(lines) |->
            [name |-> lines[i].name, depth |-> Len(lines[i].prefix),
             size |-> lines[i].size]]

(* C5: at every level the renderer and the serializer emit the children  *)
(* directories first, then by descending size, equal kind and size in    *)
(* the order of first insertion; and the serializer's pre-order sequence *)
(* of nodes is the renderer's sequence of lines.                         *)
C5_SameOrderingInBothOutputs ==
    Reported =>
        /\ \A p \in DOMAIN tree :
              /\ FollowsOrderingRule(tree, RenderedChildren(tree, p),
                                     ChildPaths(tree, p))
              /\ FollowsOrderingRule(tree, SerializedChildren(tree, p),
                                     ChildPaths(tree, p))
        /\ SerializedNodes(tree, totalSize) = RenderedNodes(tree, totalSize)

(* C5 witness: below a directory a file is larger than a sibling          *)
(* directory, and at the root two files of equal size stand in the order  *)
(* of their insertion behind the directory inserted after them.           *)
C5_Witness ==
    /\ Reported
    /\ list = << <<"b">>, <<"d", "b">>, <<"d", "e", "a">> >>
    /\ files[1].size = 1 /\ files[2].size = 2 /\ files[3].size = 1
    /\ RenderedChildren(tree, <<"d">>) = << <<"d", "e">>, <<"d", "b">> >>
    /\ RenderedChildren(tree, Root) = << <<"d">>, <<"b">> >>

(* C6 as stated: when the grand total is 0 every node's percentage is 0, *)
(* in the lines of the plain report and in the --json document alike.    *)
C6_ZeroTotalGivesZeroPercent ==
    (Reported /\ totalSize = 0) =>
        IF json
        THEN \A i \in 1..Len(DocumentPreorder(stdout[1])) :
                DocumentPreorder(stdout[1])[i].percentage = 0
        ELSE \A i \in 2..Len(stdout) :
                stdout[i].percentage = [kind |-> "num", tenths |-> 0]

(* The events of the log that are stat calls. *)
IsStatEvent(e) == e.ev \in {"stat", "statError"}

(* C7: when a stat fails, at whatever position, the run is aborted there   *)
(* with nothing on standard output; every stat call comes before the       *)
(* first output, which needs all of them to have returned; no file is      *)
(* stated twice.                                                           *)
C7_StatFailureLeavesNoOutput ==
    /\ \A i \in 1..Len(log) :
          log[i].ev = "statError" =>
              /\ stdout = <<>>
              /\ pc = "threw"
              /\ i = Len(log)
    /\ \A i, j \in 1..Len(log) :
          (IsStatEvent(log[i]) /\ log[j].ev = "stdout") => i < j
    /\ stdout # <<>> =>
          \A k \in 1..Len(list) : \E i \in 1..Len(log) : log[i] = Ev("stat", k)
    /\ \A i, j \in 1..Len(log) :
          (IsStatEvent(log[i]) /\ IsStatEvent(log[j]) /\ i # j)
              => log[i].idx # log[j].idx

(* C7 witness: the third stat failed after two that returned. *)
C7_Witness ==
    /\ pc = "threw"
    /\ Len(files) = 2
    /\ Len(list) = 3
    /\ log[Len(log)] = Ev("statError", 3)
    /\ stdout = <<>>

(* C8 as stated: with a non-numeric --fail-if-exceeds-bytes argument the *)
(* run fails in option validation: the project is never loaded, the file *)
(* list never enumerated, no file stated, no report written.             *)
C8_NonNumericCeilingStopsAtValidation ==
    (argv.present /\ ~IsNumeric(argv.chars)) =>
        /\ pc \in {"cli", "validate", "threw"}
        /\ \A i \in 1..Len(log) : log[i].ev = "configError"

Abs(x) == IF x < 0 THEN -x ELSE x

(* The sum of the one-decimal percentages, in tenths, of the children of *)
(* the node at p, as the renderer prints and as the serializer gives.    *)
RenderedLevelSum(t, p, total) ==
    LET c == ChildPaths(t, p)
        S[i \in 0..Len(c)] ==
            IF i = 0 THEN 0
            ELSE S[i - 1] + DisplayPercentage(t[c[i]].size, total).tenths
    IN  S[Len(c)]

SerializedLevelSum(t, p, total) ==
    LET c == ChildPaths(t, p)
        S[i \in 0..Len(c)] ==
            IF i = 0 THEN 0
            ELSE S[i - 1] + SerializePercentage(t[c[i]].size, total)
    IN  S[Len(c)]

Levels(t) == { p \in DOMAIN t : t[p].children # <<>> }

(* C9 as stated: with a non-zero total the percentages of the siblings of *)
(* every level, nested directories included, sum to 100.0 within 0.1 per  *)
(* sibling.                                                               *)
C9_EveryLevelSumsToHundred ==
    (Reported /\ totalSize > 0) =>
        \A p \in Levels(tree) :
            /\ Abs(RenderedLevelSum(tree, p, totalSize) - 1000)
                  <= Len(tree[p].children)
            /\ Abs(SerializedLevelSum(tree, p, totalSize) - 1000)
                  <= Len(tree[p].children)

(* C9 as amended: with a non-zero total the percentages of the children   *)
(* of the root sum to 100.0, and those of the children of a nested        *)
(* directory to that directory's share of the total (100 * size / total), *)
(* each within 0.1 per sibling.                                           *)
C9_LevelSumsToShareOfParent ==
    (Reported /\ totalSize > 0) =>
        \A p \in Levels(tree) :
            /\ p = Root => tree[p].size = totalSize
            /\ Abs(RenderedLevelSum(tree, p, totalSize) * totalSize
                   - 1000 * tree[p].size)
                  <= Len(tree[p].children) * totalSize
            /\ Abs(SerializedLevelSum(tree, p, totalSize) * totalSize
                   - 1000 * tree[p].size)
                  <= Len(tree[p].children) * totalSize

(* C9 witness: a nested directory with two children holds a part of the *)
(* total only, and the total is not a divisor of 1000.                  *)
C9_Witness ==
    /\ Reported
    /\ totalSize = 3
    /\ \E p \in Levels(tree) :
          /\ p # Root
          /\ Len(tree[p].children) = 2
          /\ tree[p].size = 2
          /\ SerializedLevelSum(tree, p, totalSize) = 666

(* How many events of the log have the name. *)
CountEvents(name) == Cardinality({ i \in 1..Len(log) : log[i].ev = name })

(* C10: in a run over its ceiling the complete report is written to      *)
(* standard output, then exactly one notice to standard error, then the  *)
(* process exits with status 1; nothing comes after, and a notice is     *)
(* never written without the report before it.                           *)
C10_ReportThenNoticeThenExit ==
    /\ stderr # <<>> => stdout # <<>>
    /\ exitCode = 1 =>
          /\ Len(log) >= 3
          /\ log[Len(log)] = Ev("exit", 1)
          /\ log[Len(log) - 1].ev = "stderr"
          /\ log[Len(log) - 2].ev = "stdout"
          /\ CountEvents("stderr") = 1
          /\ CountEvents("stdout") = 1
          /\ Len(stderr) = 1
          /\ IF json
             THEN /\ Len(stdout) = 1
                  /\ Len(DocumentPreorder(stdout[1])) + 1
                        = Cardinality(DOMAIN tree)
             ELSE Len(stdout) = Cardinality(DOMAIN tree)

(* C10 witness: a plain run over its ceiling printed the total line and *)
(* three tree lines before its notice.                                  *)
C10_Witness ==
    /\ pc = "exited"
    /\ exitCode = 1
    /\ ~json
    /\ Len(stdout) = 4
    /\ Len(stderr) = 1

====
